---- MODULE Spec2Model ----
(***************************************************************************)
(* The two components of the real-estate dashboard frontend:               *)
(*   History (pages/History.jsx): list of past queries, detail pane, the   *)
(*     two asynchronous operations fetchQueryHistory / fetchQueryResponse  *)
(*     that share one loading/error pair;                                  *)
(*   Navbar (components/Navbar.jsx): null-user guard, the two navigation   *)
(*     tabs, handleLogout.                                                 *)
(* React state is the model's state; every handler, and every continuation *)
(* of an async function after its await, is one atomic action (the         *)
(* JavaScript event loop runs each to completion).  Variables that are not *)
(* React state are history variables: they record which calls were issued  *)
(* and which step was taken last, and no guard of the program reads them   *)
(* except to cap the run.                                                  *)
(***************************************************************************)
EXTENDS Integers, Sequences, FiniteSets

VARIABLES
  \* ---- History.jsx: React state (lines 9-13)
  loading,          \* useState(true)
  error,            \* useState('')
  queryHistory,     \* useState([]): sequence of query summaries
  selectedQuery,    \* useState(null): a query id or NoSelection
  response,         \* useState(null): a response payload or NoResponse
  \* ---- History.jsx: environment and history variables
  mounted,          \* whether the mount effect (lines 15-17) has run
  historyPending,   \* tokens of the getHistory calls in flight
  historyIssued,    \* number of getHistory calls issued so far
  refreshClicks,    \* number of Refresh clicks so far
  responseCalls,    \* queryId argument of each getResponse call, in issue order
  responsePending,  \* tokens (indices of responseCalls) of the calls in flight
  rowClicks,        \* number of user clicks on a history entry so far
  lastOk,           \* per query id: token of its last successful getResponse, or 0
  errorSetBy,       \* category of the operation whose failure set `error`
  lastEvent,        \* the step taken last
  \* ---- Navbar.jsx
  user,             \* useAuth().user
  pathname,         \* useLocation().pathname, as its '/'-separated segments
  navPc,            \* position inside handleLogout
  calls,            \* the logout() / navigate() calls made so far, in order
  logoutCount,      \* number of invocations of handleLogout so far
  navEvent          \* the Navbar step taken last

historyVars == <<loading, error, queryHistory, selectedQuery, response, mounted,
                 historyPending, historyIssued, refreshClicks, responseCalls,
                 responsePending, rowClicks, lastOk, errorSetBy, lastEvent>>
navVars == <<user, pathname, navPc, calls, logoutCount, navEvent>>
vars == <<historyVars, navVars>>

----------------------------------------------------------------------------
\* Bounds of the model.
MaxId == 1              \* query ids are 0..MaxId
MaxHistoryFetches == 2  \* cap on getHistory calls (mount + refreshes)
MaxClicks == 2          \* cap on clicks on history entries
MaxLogouts == 2         \* cap on invocations of handleLogout
MaxOverlapFetches == 3  \* cap on getHistory calls in SpecOverlap
MaxOverlapClicks == 1   \* cap on clicks on history entries in SpecOverlap

----------------------------------------------------------------------------
\* Values.

\* selectedQuery's initial value, useState(null).
NoSelection == -1

\* response's null value, useState(null) / setResponse(null).
NoResponse == [qid |-> NoSelection, tok |-> 0]

QueryIds == 0 .. MaxId

\* The backend's has_response flag of a query.
HasResponse(id) == id % 2 = 0

\* A query summary as the list uses it (id, has_response).
Summary(id) == [id |-> id, has_response |-> HasResponse(id)]

RECURSIVE ListsOver(_)
\* Every sequence of summaries with pairwise distinct ids drawn from ids.
ListsOver(ids) ==
  {<<>>} \cup UNION {{<<Summary(i)>> \o l : l \in ListsOver(ids \ {i})} : i \in ids}

\* What getHistory() may resolve with (result.data).
HistoryResults == ListsOver(QueryIds)

\* What getResponse(queryId) resolves with (result.data) for the call with
\* token tok: the payload of that call.
ResponseData(qid, tok) == [qid |-> qid, tok |-> tok]

\* A rejection, reduced to err.response?.data?.detail: hasDetail is FALSE when
\* the optional chain yields undefined (no response, no data or no detail).
NoError == [hasDetail |-> FALSE, detail |-> "-"]
Rejections == {[hasDetail |-> FALSE, detail |-> ""],
               [hasDetail |-> TRUE, detail |-> ""],
               [hasDetail |-> TRUE, detail |-> "unauthorized"]}

FallbackHistory == "Failed to fetch query history"
FallbackResponse == "Failed to fetch query response"

\* JavaScript truthiness of a string.
Truthy(s) == s # ""

\* err.response?.data?.detail || fallback
DetailOr(err, fallback) ==
  IF err.hasDetail /\ Truthy(err.detail) THEN err.detail ELSE fallback

\* A spinner test on loading alone (a plausible slip).
SpinnerWheneverLoading == loading

\* The spinner-only branch of render (lines 68-76).
SpinnerView == loading /\ Len(queryHistory) = 0

\* What History renders around the two panes: the spinner alone, or the full
\* layout with the Refresh button, the banner when error is truthy, the list
\* pane and the detail pane.
HistoryRender ==
  IF SpinnerView
  THEN {"spinner"}
  ELSE {"refreshButton", "listPane", "detailPane"}
         \cup (IF Truthy(error) THEN {"banner"} ELSE {})

\* A step: its operation, the query id and call token it concerns, the rejection
\* it delivered, the value `response` had before it, and (set by the steps that
\* deliver one) the list getHistory resolved with.
Event(op, id, tok, err, prev) ==
  [op |-> op, id |-> id, tok |-> tok, err |-> err, prev |-> prev, data |-> <<>>]

\* JavaScript truthiness of selectedQuery, the test `selectedQuery ?` of the
\* detail pane (line 175): null is falsy, and so is the number 0.
TruthyId(q) == q # NoSelection /\ q # 0

\* JavaScript truthiness of response, the test `response ?` (line 203): null is
\* falsy, a payload object is truthy.
TruthyResponse(r) == r # NoResponse

\* An element of the detail pane: its kind, whether the metadata lookup
\* queryHistory.find(q => q.id === selectedQuery) found a summary, and the
\* payload handed to ResponseCard.
PaneElement(el, found, resp) == [el |-> el, found |-> found, response |-> resp]

\* The detail pane (lines 174-220).
DetailPane ==
  IF TruthyId(selectedQuery)
  THEN {PaneElement("metadata",
                    \E i \in 1 .. Len(queryHistory) : queryHistory[i].id = selectedQuery,
                    NoResponse),
        IF TruthyResponse(response)
        THEN PaneElement("responseCard", FALSE, response)
        ELSE PaneElement("resultsPlaceholder", FALSE, NoResponse)}
  ELSE {PaneElement("neutralPlaceholder", FALSE, NoResponse)}

----------------------------------------------------------------------------
\* Initial state: the useState initialisers, before the mount effect.
HistoryInit ==
  /\ loading = TRUE
  /\ error = ""
  /\ queryHistory = <<>>
  /\ selectedQuery = NoSelection
  /\ response = NoResponse
  /\ mounted = FALSE
  /\ historyPending = {}
  /\ historyIssued = 0
  /\ refreshClicks = 0
  /\ responseCalls = <<>>
  /\ responsePending = {}
  /\ rowClicks = 0
  /\ lastOk = [q \in QueryIds |-> 0]
  /\ errorSetBy = "none"
  /\ lastEvent = Event("init", NoSelection, 0, NoError, NoResponse)

----------------------------------------------------------------------------
\* History.jsx: fetchQueryHistory (lines 19-30).

\* A start of the history load that also drops the selection and its payload
\* (a plausible slip).
StartHistoryFetchClearingSelection ==
  /\ loading' = TRUE
  /\ error' = ""
  /\ errorSetBy' = "none"
  /\ historyIssued' = historyIssued + 1
  /\ historyPending' = historyPending \cup {historyIssued + 1}
  /\ selectedQuery' = NoSelection
  /\ response' = NoResponse
  /\ UNCHANGED <<queryHistory, responseCalls, responsePending, rowClicks, lastOk>>

\* The synchronous part, up to the await: setLoading(true), setError(''),
\* one getHistory() call.
StartHistoryFetch ==
  /\ loading' = TRUE
  /\ error' = ""
  /\ errorSetBy' = "none"
  /\ historyIssued' = historyIssued + 1
  /\ historyPending' = historyPending \cup {historyIssued + 1}
  /\ UNCHANGED <<queryHistory, selectedQuery, response, responseCalls,
                 responsePending, rowClicks, lastOk>>

\* The mount effect, useEffect(() => { fetchQueryHistory() }, []).
Mount ==
  /\ ~mounted
  /\ mounted' = TRUE
  /\ StartHistoryFetch
  /\ UNCHANGED navVars
  /\ lastEvent' = Event("mount", NoSelection, historyIssued + 1, NoError, NoResponse)
  /\ UNCHANGED refreshClicks

\* A click on the Refresh button, onClick={fetchQueryHistory}; the button is
\* part of the full layout only.
RefreshWithin(cap) ==
  /\ mounted
  /\ ~SpinnerView
  /\ historyIssued < cap
  /\ refreshClicks' = refreshClicks + 1
  /\ StartHistoryFetch
  /\ UNCHANGED navVars
  /\ lastEvent' = Event("refresh", NoSelection, historyIssued + 1, NoError, NoResponse)
  /\ UNCHANGED mounted

\* Refresh, within the cap of Spec.
Refresh == RefreshWithin(MaxHistoryFetches)

\* A success handler that also clears the banner (a plausible slip).
HistoryResolvedClearingError(t, list) ==
  /\ t \in historyPending
  /\ historyPending' = historyPending \ {t}
  /\ queryHistory' = list
  /\ loading' = FALSE
  /\ error' = ""
  /\ errorSetBy' = "none"
  /\ UNCHANGED navVars
  /\ lastEvent' = [Event("historyResolved", NoSelection, t, NoError, NoResponse)
                     EXCEPT !.data = list]
  /\ UNCHANGED <<selectedQuery, response, mounted, historyIssued, refreshClicks,
                 responseCalls, responsePending, rowClicks, lastOk>>

\* A success handler that drops the result of any call but the one issued last
\* (a staleness check the code does not have).
HistoryResolvedIfLatest(t, list) ==
  /\ t \in historyPending
  /\ historyPending' = historyPending \ {t}
  /\ queryHistory' = IF t = historyIssued THEN list ELSE queryHistory
  /\ loading' = FALSE
  /\ UNCHANGED navVars
  /\ lastEvent' = [Event("historyResolved", NoSelection, t, NoError, NoResponse)
                     EXCEPT !.data = list]
  /\ UNCHANGED <<error, errorSetBy, selectedQuery, response, mounted,
                 historyIssued, refreshClicks, responseCalls, responsePending,
                 rowClicks, lastOk>>

\* getHistory() resolves with list: setQueryHistory(result.data), then the
\* finally block's setLoading(false).
HistoryResolved(t, list) ==
  /\ t \in historyPending
  /\ historyPending' = historyPending \ {t}
  /\ queryHistory' = list
  /\ loading' = FALSE
  /\ UNCHANGED navVars
  /\ lastEvent' = [Event("historyResolved", NoSelection, t, NoError, NoResponse)
                     EXCEPT !.data = list]
  /\ UNCHANGED <<error, errorSetBy, selectedQuery, response, mounted,
                 historyIssued, refreshClicks, responseCalls, responsePending,
                 rowClicks, lastOk>>

\* A failure handler that blanks the list (a plausible slip).
HistoryRejectedBlankingList(t, err) ==
  /\ t \in historyPending
  /\ historyPending' = historyPending \ {t}
  /\ error' = DetailOr(err, FallbackHistory)
  /\ errorSetBy' = "history"
  /\ queryHistory' = <<>>
  /\ loading' = FALSE
  /\ UNCHANGED navVars
  /\ lastEvent' = Event("historyRejected", NoSelection, t, err, NoResponse)
  /\ UNCHANGED <<selectedQuery, response, mounted, historyIssued,
                 refreshClicks, responseCalls, responsePending, rowClicks, lastOk>>

\* A failure handler that retries once by itself (a plausible slip).
HistoryRejectedRetrying(t, err) ==
  /\ t \in historyPending
  /\ historyPending' = (historyPending \ {t}) \cup {historyIssued + 1}
  /\ historyIssued' = historyIssued + 1
  /\ error' = DetailOr(err, FallbackHistory)
  /\ errorSetBy' = "history"
  /\ loading' = FALSE
  /\ UNCHANGED navVars
  /\ lastEvent' = Event("historyRejected", NoSelection, t, err, NoResponse)
  /\ UNCHANGED <<queryHistory, selectedQuery, response, mounted,
                 refreshClicks, responseCalls, responsePending, rowClicks, lastOk>>

\* getHistory() rejects with err: the catch block's setError, then the finally
\* block's setLoading(false).
HistoryRejected(t, err) ==
  /\ t \in historyPending
  /\ historyPending' = historyPending \ {t}
  /\ error' = DetailOr(err, FallbackHistory)
  /\ errorSetBy' = "history"
  /\ loading' = FALSE
  /\ UNCHANGED navVars
  /\ lastEvent' = Event("historyRejected", NoSelection, t, err, NoResponse)
  /\ UNCHANGED <<queryHistory, selectedQuery, response, mounted, historyIssued,
                 refreshClicks, responseCalls, responsePending, rowClicks, lastOk>>

----------------------------------------------------------------------------
\* History.jsx: fetchQueryResponse (lines 32-47) and the two click handlers.

\* The synchronous part of n successive fetchQueryResponse(q) invocations, each
\* up to its await: setLoading(true), setError(''), setSelectedQuery(q), one
\* getResponse(q) call.
StartResponseFetches(q, n) ==
  /\ loading' = TRUE
  /\ error' = ""
  /\ errorSetBy' = "none"
  /\ selectedQuery' = q
  /\ responseCalls' = responseCalls \o [k \in 1 .. n |-> q]
  /\ responsePending' =
       responsePending \cup (Len(responseCalls) + 1 .. Len(responseCalls) + n)
  /\ UNCHANGED <<queryHistory, response, mounted, historyPending,
                 historyIssued, refreshClicks, lastOk>>

\* A click on row i of the list: onClick={() => fetchQueryResponse(query.id)},
\* whatever the row's has_response.
ClickRowWithin(i, cap) ==
  /\ ~SpinnerView
  /\ i \in 1 .. Len(queryHistory)
  /\ rowClicks < cap
  /\ rowClicks' = rowClicks + 1
  /\ StartResponseFetches(queryHistory[i].id, 1)
  /\ UNCHANGED navVars
  /\ lastEvent' = Event("rowClick", queryHistory[i].id,
                        Len(responseCalls) + 1, NoError, NoResponse)

\* A row click, within the cap of Spec.
ClickRow(i) == ClickRowWithin(i, MaxClicks)

\* A View Results handler without e.stopPropagation() (a plausible slip).
StopPropagationForgotten == FALSE

\* Whether the View Results handler calls e.stopPropagation() (line 154).
StopPropagationCalled == TRUE

\* The handlers a click on View Results runs: the button's own, then, unless
\* propagation was stopped, the enclosing row's.
ViewResultsHandlers == IF StopPropagationCalled THEN 1 ELSE 2

\* A click on the View Results button of row i, rendered when has_response.
ClickViewResultsWithin(i, cap) ==
  /\ ~SpinnerView
  /\ i \in 1 .. Len(queryHistory)
  /\ queryHistory[i].has_response
  /\ rowClicks < cap
  /\ rowClicks' = rowClicks + 1
  /\ StartResponseFetches(queryHistory[i].id, ViewResultsHandlers)
  /\ UNCHANGED navVars
  /\ lastEvent' = Event("viewResults", queryHistory[i].id,
                        Len(responseCalls) + ViewResultsHandlers, NoError, NoResponse)

\* A View Results click, within the cap of Spec.
ClickViewResults(i) == ClickViewResultsWithin(i, MaxClicks)

\* A success handler guarded by a staleness check (what the code lacks).
ResponseResolvedIfCurrent(t) ==
  /\ t \in responsePending
  /\ responsePending' = responsePending \ {t}
  /\ response' = IF responseCalls[t] = selectedQuery
                 THEN ResponseData(responseCalls[t], t) ELSE response
  /\ lastOk' = [lastOk EXCEPT ![responseCalls[t]] = t]
  /\ loading' = FALSE
  /\ UNCHANGED navVars
  /\ lastEvent' = Event("responseResolved", responseCalls[t], t, NoError,
                        response)
  /\ UNCHANGED <<error, errorSetBy, queryHistory, selectedQuery, mounted,
                 historyPending, historyIssued, refreshClicks, responseCalls,
                 rowClicks>>

\* A success handler that keeps loading while another fetch is in flight (a
\* per-operation accounting the code does not have).
ResponseResolvedCountingFetches(t) ==
  /\ t \in responsePending
  /\ responsePending' = responsePending \ {t}
  /\ response' = ResponseData(responseCalls[t], t)
  /\ lastOk' = [lastOk EXCEPT ![responseCalls[t]] = t]
  /\ loading' = (historyPending # {} \/ responsePending \ {t} # {})
  /\ UNCHANGED navVars
  /\ lastEvent' = Event("responseResolved", responseCalls[t], t, NoError,
                        response)
  /\ UNCHANGED <<error, errorSetBy, queryHistory, selectedQuery, mounted,
                 historyPending, historyIssued, refreshClicks, responseCalls,
                 rowClicks>>

\* getResponse(queryId) of call t resolves: setResponse(result.data), then the
\* finally block's setLoading(false).
ResponseResolved(t) ==
  /\ t \in responsePending
  /\ responsePending' = responsePending \ {t}
  /\ response' = ResponseData(responseCalls[t], t)
  /\ lastOk' = [lastOk EXCEPT ![responseCalls[t]] = t]
  /\ loading' = FALSE
  /\ UNCHANGED navVars
  /\ lastEvent' = Event("responseResolved", responseCalls[t], t, NoError,
                        response)
  /\ UNCHANGED <<error, errorSetBy, queryHistory, selectedQuery, mounted,
                 historyPending, historyIssued, refreshClicks, responseCalls,
                 rowClicks>>

\* A failure handler that keeps the old payload (a plausible slip).
ResponseRejectedKeepingResponse(t, err) ==
  /\ t \in responsePending
  /\ responsePending' = responsePending \ {t}
  /\ error' = DetailOr(err, FallbackResponse)
  /\ errorSetBy' = "response"
  /\ loading' = FALSE
  /\ UNCHANGED navVars
  /\ lastEvent' = Event("responseRejected", responseCalls[t], t, err,
                        response)
  /\ UNCHANGED <<response, queryHistory, selectedQuery, mounted, historyPending,
                 historyIssued, refreshClicks, responseCalls, rowClicks, lastOk>>

\* A failure handler without the finally block (a plausible slip).
ResponseRejectedWithoutFinally(t, err) ==
  /\ t \in responsePending
  /\ responsePending' = responsePending \ {t}
  /\ error' = DetailOr(err, FallbackResponse)
  /\ errorSetBy' = "response"
  /\ response' = NoResponse
  /\ UNCHANGED navVars
  /\ lastEvent' = Event("responseRejected", responseCalls[t], t, err,
                        response)
  /\ UNCHANGED <<loading, queryHistory, selectedQuery, mounted, historyPending,
                 historyIssued, refreshClicks, responseCalls, rowClicks, lastOk>>

\* A failure handler that also deselects the row (a plausible slip).
ResponseRejectedDeselecting(t, err) ==
  /\ t \in responsePending
  /\ responsePending' = responsePending \ {t}
  /\ error' = DetailOr(err, FallbackResponse)
  /\ errorSetBy' = "response"
  /\ response' = NoResponse
  /\ selectedQuery' = NoSelection
  /\ loading' = FALSE
  /\ UNCHANGED navVars
  /\ lastEvent' = Event("responseRejected", responseCalls[t], t, err,
                        response)
  /\ UNCHANGED <<queryHistory, mounted, historyPending,
                 historyIssued, refreshClicks, responseCalls, rowClicks, lastOk>>

\* getResponse(queryId) of call t rejects with err: the catch block's setError
\* and setResponse(null), then the finally block's setLoading(false).
ResponseRejected(t, err) ==
  /\ t \in responsePending
  /\ responsePending' = responsePending \ {t}
  /\ error' = DetailOr(err, FallbackResponse)
  /\ errorSetBy' = "response"
  /\ response' = NoResponse
  /\ loading' = FALSE
  /\ UNCHANGED navVars
  /\ lastEvent' = Event("responseRejected", responseCalls[t], t, err,
                        response)
  /\ UNCHANGED <<queryHistory, selectedQuery, mounted, historyPending,
                 historyIssued, refreshClicks, responseCalls, rowClicks, lastOk>>

\* The History view: every step of the component.
Next ==
  \/ Mount
  \/ Refresh
  \/ \E t \in 1 .. MaxHistoryFetches, list \in HistoryResults : HistoryResolved(t, list)
  \/ \E t \in 1 .. MaxHistoryFetches, err \in Rejections : HistoryRejected(t, err)
  \/ \E i \in 1 .. MaxId + 1 : ClickRow(i)
  \/ \E i \in 1 .. MaxId + 1 : ClickViewResults(i)
  \/ \E t \in 1 .. 2 * MaxClicks : ResponseResolved(t)
  \/ \E t \in 1 .. 2 * MaxClicks, err \in Rejections : ResponseRejected(t, err)

\* The same steps under other caps: more refreshes, so that refreshes overlap,
\* and fewer clicks.
NextOverlap ==
  \/ Mount
  \/ RefreshWithin(MaxOverlapFetches)
  \/ \E t \in 1 .. MaxOverlapFetches, list \in HistoryResults : HistoryResolved(t, list)
  \/ \E t \in 1 .. MaxOverlapFetches, err \in Rejections : HistoryRejected(t, err)
  \/ \E i \in 1 .. MaxId + 1 : ClickRowWithin(i, MaxOverlapClicks)
  \/ \E i \in 1 .. MaxId + 1 : ClickViewResultsWithin(i, MaxOverlapClicks)
  \/ \E t \in 1 .. 2 * MaxOverlapClicks : ResponseResolved(t)
  \/ \E t \in 1 .. 2 * MaxOverlapClicks, err \in Rejections : ResponseRejected(t, err)

\* A fetch in flight completes: the steps the network owes the view.
Completion ==
  \/ \E t \in 1 .. MaxOverlapFetches, list \in HistoryResults : HistoryResolved(t, list)
  \/ \E t \in 1 .. MaxOverlapFetches, err \in Rejections : HistoryRejected(t, err)
  \/ \E t \in 1 .. 2 * MaxOverlapClicks : ResponseResolved(t)
  \/ \E t \in 1 .. 2 * MaxOverlapClicks, err \in Rejections : ResponseRejected(t, err)

----------------------------------------------------------------------------
\* Navbar.jsx.  A path is the sequence of its '/'-separated segments, so that
\* string equality is sequence equality: '/query' is <<"query">>, '/query/' is
\* <<"query", "">>, '/history/1' is <<"history", "1">>, '/' is <<>>.

NoUser == [present |-> FALSE, username |-> ""]
Users == {[present |-> TRUE, username |-> "alice"],
          [present |-> TRUE, username |-> "bob"]}

QueryPath == <<"query">>
HistoryPath == <<"history">>
LoginPath == <<"login">>
Paths == {QueryPath, HistoryPath, LoginPath, <<>>, <<"query", "">>,
          <<"history", "1">>, <<"Query">>}

\* p starts with target (a prefix match).
StartsWith(p, target) ==
  Len(p) >= Len(target) /\ SubSeq(p, 1, Len(target)) = target

\* An active test by prefix instead of equality (a plausible slip).
LinkActiveByPrefix(target, p) == StartsWith(p, target)

\* location.pathname === target, the className test of a tab (lines 35, 46).
LinkActive(target, p) == p = target

\* A render without the null-user guard (a plausible slip).
NavbarRenderUnguarded(u, p) ==
  {[el |-> "link", to |-> QueryPath, active |-> LinkActive(QueryPath, p)],
   [el |-> "link", to |-> HistoryPath, active |-> LinkActive(HistoryPath, p)],
   [el |-> "logout", to |-> LoginPath, active |-> FALSE]}

\* What Navbar renders for user u at path p: nothing when !user, else the two
\* tabs (with their active marking) and the Logout button.
NavbarRender(u, p) ==
  IF ~u.present
  THEN {}
  ELSE {[el |-> "link", to |-> QueryPath, active |-> LinkActive(QueryPath, p)],
        [el |-> "link", to |-> HistoryPath, active |-> LinkActive(HistoryPath, p)],
        [el |-> "logout", to |-> LoginPath, active |-> FALSE]}

\* The targets of the tabs rendered as active.
ActiveLinks == {e.to : e \in {x \in NavbarRender(user, pathname) : x.active}}

\* The session context's logout(): the session ends, user becomes null.
SessionLogout(u) == NoUser

NavEvent(op, u) == [op |-> op, user |-> u]

NavbarInit ==
  /\ user = NoUser
  /\ pathname = LoginPath
  /\ navPc = "idle"
  /\ calls = <<>>
  /\ logoutCount = 0
  /\ navEvent = NavEvent("init", NoUser)

\* The session context provides a user (a login elsewhere in the application).
Login(u) ==
  /\ navPc = "idle"
  /\ ~user.present
  /\ user' = u
  /\ UNCHANGED historyVars
  /\ navEvent' = NavEvent("login", user)
  /\ UNCHANGED <<pathname, navPc, calls, logoutCount>>

\* The router's location changes without the Navbar (address bar, redirects).
Browse(p) ==
  /\ navPc = "idle"
  /\ pathname' = p
  /\ UNCHANGED historyVars
  /\ navEvent' = NavEvent("browse", user)
  /\ UNCHANGED <<user, navPc, calls, logoutCount>>

\* A click on one of the rendered tabs, <Link to=...>.
ClickLink(target) ==
  /\ navPc = "idle"
  /\ \E e \in NavbarRender(user, pathname) : e.el = "link" /\ e.to = target
  /\ pathname' = target
  /\ UNCHANGED historyVars
  /\ navEvent' = NavEvent("clickLink", user)
  /\ UNCHANGED <<user, navPc, calls, logoutCount>>

\* A handleLogout that navigates before it logs out (a plausible slip).
HandleLogoutBodySwapped == << <<"navigate", LoginPath>>, <<"logout">> >>

\* The statements of handleLogout in order: logout(), navigate('/login').
HandleLogoutBody == << <<"logout">>, <<"navigate", LoginPath>> >>

\* The effect of one call of handleLogout on the session and the location.
Perform(call) ==
  /\ calls' = Append(calls, call)
  /\ user' = IF call[1] = "logout" THEN SessionLogout(user) ELSE user
  /\ pathname' = IF call[1] = "navigate" THEN call[2] ELSE pathname

\* A click on the rendered Logout button, onClick={handleLogout}: the first
\* statement of handleLogout.
HandleLogoutStart ==
  /\ navPc = "idle"
  /\ \E e \in NavbarRender(user, pathname) : e.el = "logout"
  /\ logoutCount < MaxLogouts
  /\ logoutCount' = logoutCount + 1
  /\ Perform(HandleLogoutBody[1])
  /\ navPc' = "second"
  /\ UNCHANGED historyVars
  /\ navEvent' = NavEvent("handleLogout", user)

\* The second statement of handleLogout; no other handler runs between the two.
HandleLogoutFinish ==
  /\ navPc = "second"
  /\ Perform(HandleLogoutBody[2])
  /\ navPc' = "idle"
  /\ UNCHANGED historyVars
  /\ navEvent' = NavEvent("handleLogoutDone", navEvent.user)
  /\ UNCHANGED logoutCount

\* The Navbar: every step of the component and of its collaborators.
NavNext ==
  \/ \E u \in Users : Login(u)
  \/ \E p \in Paths : Browse(p)
  \/ \E target \in {QueryPath, HistoryPath} : ClickLink(target)
  \/ HandleLogoutStart
  \/ HandleLogoutFinish

----------------------------------------------------------------------------
Init == HistoryInit /\ NavbarInit

\* The History view.
Spec == Init /\ [][Next]_vars

\* The Navbar.
SpecNavbar == Init /\ [][NavNext]_vars

\* The History view with overlapping refreshes.
SpecOverlap == Init /\ [][NextOverlap]_vars

\* The History view where the mount effect runs and every fetch in flight
\* eventually resolves or rejects.
FairSpec == SpecOverlap /\ WF_vars(Mount) /\ WF_vars(Completion)

----------------------------------------------------------------------------
\* Properties of the History view (checked under Spec).

\* The banner a rejection err must produce under a fallback: the server's
\* detail string when the rejection carries a non-empty one, else the fallback.
ExpectedBanner(err, fallback) ==
  IF err.hasDetail /\ err.detail # "" THEN err.detail ELSE fallback

LastCall == Len(responseCalls)

\* C1: in every reachable state `response` is null or is the payload of the
\* last successful getResponse for the currently selected query id.
C1_ResponseMatchesSelection ==
  response # NoResponse =>
    /\ selectedQuery # NoSelection
    /\ response = ResponseData(selectedQuery, lastOk[selectedQuery])

\* C2: a rejected getHistory leaves queryHistory as it was, sets error to the
\* server detail string when the rejection carries one (non-empty) and to
\* 'Failed to fetch query history' otherwise, and sets loading to false.
C2_HistoryFailure ==
  [][lastEvent'.op = "historyRejected" =>
       /\ queryHistory' = queryHistory
       /\ error' = ExpectedBanner(lastEvent'.err, "Failed to fetch query history")
       /\ loading' = FALSE]_vars

\* C2's case: a Refresh failed with the detail 'unauthorized' while a list was
\* on display.
C2_Witness ==
  /\ lastEvent.op = "historyRejected"
  /\ lastEvent.err = [hasDetail |-> TRUE, detail |-> "unauthorized"]
  /\ Len(queryHistory) > 0

\* C3: a rejected getResponse sets response to null, whatever it held, and sets
\* error to the server detail string when the rejection carries one (non-empty)
\* and to 'Failed to fetch query response' otherwise.
C3_ResponseFailure ==
  [][lastEvent'.op = "responseRejected" =>
       /\ response' = NoResponse
       /\ error' = ExpectedBanner(lastEvent'.err, "Failed to fetch query response")]_vars

\* C3's case: the fetch for one selection failed, without a server detail,
\* while the payload of an earlier, different selection was on display.
C3_Witness ==
  /\ lastEvent.op = "responseRejected"
  /\ ~lastEvent.err.hasDetail
  /\ lastEvent.prev # NoResponse
  /\ lastEvent.prev.qid # lastEvent.id

\* C5: the number of getHistory calls issued is 1 for the mount plus 1 per
\* Refresh click; no completion, failed or successful, issues another.
C5_HistoryCallCount ==
  historyIssued = (IF mounted THEN 1 ELSE 0) + refreshClicks

\* C5's case: a refresh has failed and nothing is in flight.
C5_Witness ==
  /\ refreshClicks >= 1
  /\ lastEvent.op = "historyRejected"
  /\ historyPending = {}

\* C6: every click on a history entry (the row, whatever its has_response, or
\* its View Results button) issues exactly one getResponse call, for that
\* entry's id.
C6_OneCallPerClick ==
  /\ LastCall = rowClicks
  /\ lastEvent.op \in {"rowClick", "viewResults"} =>
       /\ responseCalls[LastCall] = lastEvent.id
       /\ LastCall \in responsePending

\* C6's case: a click on the row of a query without response, then a click on
\* a View Results button.
C6_Witness ==
  /\ rowClicks = 2
  /\ ~HasResponse(responseCalls[1])
  /\ lastEvent.op = "viewResults"

\* The category of the operation a step belongs to.
Category(op) ==
  IF op \in {"mount", "refresh", "historyResolved", "historyRejected"}
  THEN "history" ELSE "response"

\* C7 as stated: a banner, once set, changes only in a step of an operation of
\* the category that set it.
C7_BannerChangedBySameCategoryOnly ==
  [][(error # "" /\ error' # error) => Category(lastEvent'.op) = errorSetBy]_vars

\* C7 as amended: a banner, once set, changes only when a fetch of either
\* category starts (which clears it) or fails (which overwrites it); a
\* successful completion leaves it alone.
C7_BannerChangedByAttemptOnly ==
  [][(error # "" /\ error' # error) =>
       lastEvent'.op \in {"refresh", "rowClick", "viewResults",
                          "historyRejected", "responseRejected"}]_vars

\* C7's case: a banner survived the successful completion of a fetch.
C7_Witness ==
  /\ lastEvent.op \in {"historyResolved", "responseResolved"}
  /\ error # ""

\* C10: when the fetch that resolves last, successfully, belongs to an earlier
\* click than the latest one, selectedQuery is the latest click's id while
\* response is the earlier fetch's payload.
C10_LateResultOverwrites ==
  (lastEvent.op = "responseResolved" /\ responsePending = {}) =>
     /\ selectedQuery = responseCalls[LastCall]
     /\ response = ResponseData(responseCalls[lastEvent.tok], lastEvent.tok)

\* C10's case: row A clicked, then row B, and A's fetch resolved last.
C10_Witness ==
  /\ lastEvent.op = "responseResolved"
  /\ responsePending = {}
  /\ lastEvent.tok < LastCall
  /\ responseCalls[lastEvent.tok] # responseCalls[LastCall]
  /\ response.qid # selectedQuery

----------------------------------------------------------------------------
\* Properties of the Navbar (checked under SpecNavbar).

\* C4: the calls made by the invocations of handleLogout are, per invocation,
\* one logout() followed by one navigate('/login').
C4_LogoutThenNavigate ==
  /\ Len(calls) = 2 * logoutCount - (IF navPc = "second" THEN 1 ELSE 0)
  /\ \A k \in 1 .. Len(calls) :
       calls[k] = IF k % 2 = 1 THEN <<"logout">> ELSE <<"navigate", <<"login">>>>

\* C4's case: two invocations of handleLogout have completed.
C4_Witness ==
  /\ logoutCount >= 2
  /\ navPc = "idle"

\* C8: in the rendered Navbar the active tabs are exactly the one whose target
\* equals the current path, if the path is '/query' or '/history', and none
\* otherwise; never both.
C8_ActiveLink ==
  ActiveLinks =
    IF user.present /\ pathname \in {<<"query">>, <<"history">>}
    THEN {pathname} ELSE {}

\* C8's case: the Navbar is rendered at '/history/1'.
C8_Witness ==
  /\ user.present
  /\ pathname = <<"history", "1">>

\* C9: with a null user the Navbar renders nothing, and every tab click and
\* every invocation of handleLogout happened with a non-null user.
C9_NullUserRendersNothing ==
  /\ ~user.present => NavbarRender(user, pathname) = {}
  /\ navEvent.op \in {"clickLink", "handleLogout", "handleLogoutDone"} =>
       navEvent.user.present

\* C9's case: the user is null after a logout, at a path other than '/login'.
C9_Witness ==
  /\ ~user.present
  /\ logoutCount >= 1
  /\ pathname = <<"history">>

----------------------------------------------------------------------------
\* Further properties of the History view.

StartOps == {"mount", "refresh", "rowClick", "viewResults"}
CompletionOps == {"historyResolved", "historyRejected",
                  "responseResolved", "responseRejected"}

\* C11: the one loading/error pair is written last-write-wins: every
\* completion leaves loading false, whatever else is in flight, and every start
\* leaves loading true and the banner empty, whatever an earlier operation set.
C11_SharedPairLastWriteWins ==
  /\ lastEvent.op \in CompletionOps => loading = FALSE
  /\ lastEvent.op \in StartOps => (loading = TRUE /\ error = "")

\* C11's case: a response-fetch completed during a history-refresh, so a fetch
\* is in flight while loading is false.
C11_Witness ==
  /\ lastEvent.op = "responseResolved"
  /\ historyPending # {}
  /\ loading = FALSE

\* The full layout, with the banner exactly when error is non-empty.
FullLayout ==
  {"refreshButton", "listPane", "detailPane"}
    \cup (IF error # "" THEN {"banner"} ELSE {})

\* The mount-triggered load (the first getHistory call) has not completed.
InitialLoadInFlight == ~mounted \/ 1 \in historyPending

\* C12 as stated: the spinner-only view is rendered exactly while the initial
\* load is in flight and the list is empty; everywhere else, the full layout.
C12_SpinnerOnlyDuringInitialLoad ==
  HistoryRender =
    IF InitialLoadInFlight /\ Len(queryHistory) = 0
    THEN {"spinner"} ELSE FullLayout

\* C12 as amended: the spinner-only view is rendered exactly while the list is
\* empty and the last step was the start of a history load (the mount, or a
\* Refresh clicked on an empty list) with no fetch completed since; everywhere
\* else, the full layout.
C12_SpinnerWhileLoadingEmptyList ==
  HistoryRender =
    IF Len(queryHistory) = 0 /\ lastEvent.op \in {"init", "mount", "refresh"}
    THEN {"spinner"} ELSE FullLayout

\* C12's case: a Refresh was clicked on an empty list after the initial load
\* had completed.
C12_Witness ==
  /\ lastEvent.op = "refresh"
  /\ Len(queryHistory) = 0
  /\ 1 \notin historyPending

\* C13: the detail pane shows the neutral placeholder exactly when no row is
\* selected; with a row selected, whatever its id, it shows the query metadata
\* together with the Response Display fed with `response` when `response` is
\* non-null, and with the results placeholder when it is null.
C13_DetailPaneBySelection ==
  {e.el : e \in DetailPane} =
    IF selectedQuery = NoSelection
    THEN {"neutralPlaceholder"}
    ELSE {"metadata",
          IF response # NoResponse THEN "responseCard" ELSE "resultsPlaceholder"}

\* C14: a successful getHistory leaves queryHistory equal to the sequence it
\* returned, in the order returned, and loading false; so after overlapping
\* refreshes the list is the result of the call that resolved last, whether or
\* not it was issued last.
C14_HistorySuccessReplacesList ==
  lastEvent.op = "historyResolved" =>
    (queryHistory = lastEvent.data /\ loading = FALSE)

\* C14's case: of two overlapping refreshes the one issued first resolved last,
\* and nothing is in flight any more.
C14_Witness ==
  /\ lastEvent.op = "historyResolved"
  /\ historyPending = {}
  /\ 1 < lastEvent.tok
  /\ lastEvent.tok < historyIssued

\* C15: once mounted, loading is false whenever no fetch is in flight; and,
\* every fetch in flight eventually resolving or rejecting, loading = true is
\* always followed by loading = false.
C15_LoadingEventuallyClears ==
  /\ [](mounted /\ historyPending = {} /\ responsePending = {} => loading = FALSE)
  /\ (loading = TRUE ~> loading = FALSE)

\* C15's case: the last fetch in flight has failed and nothing is in flight.
C15_Witness ==
  /\ lastEvent.op = "responseRejected"
  /\ historyPending = {}
  /\ responsePending = {}
  /\ historyIssued > 1

\* C16: no step of the history load (its start at mount or Refresh, its
\* success, its failure) changes selectedQuery or response.
C16_HistoryLoadKeepsSelection ==
  [][lastEvent'.op \in {"mount", "refresh", "historyResolved", "historyRejected"} =>
       (selectedQuery' = selectedQuery /\ response' = response)]_vars

\* C16's case: a refresh returned a list without the selected id, whose payload
\* is on display.
C16_Witness ==
  /\ lastEvent.op = "historyResolved"
  /\ selectedQuery # NoSelection
  /\ \A i \in 1 .. Len(queryHistory) : queryHistory[i].id # selectedQuery
  /\ response # NoResponse
  /\ response.qid = selectedQuery

\* C17: selectedQuery is null while no row has been clicked and otherwise the
\* id of the row clicked last, from the click on, whatever completes or fails
\* afterwards.
C17_SelectionIsLastClick ==
  /\ selectedQuery = IF rowClicks = 0 THEN NoSelection ELSE responseCalls[LastCall]
  /\ lastEvent.op \in {"rowClick", "viewResults"} => selectedQuery = lastEvent.id

\* C17's case: the fetch for the row clicked last has failed.
C17_Witness ==
  /\ lastEvent.op = "responseRejected"
  /\ lastEvent.tok = LastCall
  /\ rowClicks = 2

====
